---- MODULE Spec2Model ----
(***************************************************************************)
(* Model of the library server (src/library.c): the two global tables      *)
(* users[] / books[] with their reader-writer locks, the bootstrap that    *)
(* loads books.conf, and the handler threads (client_handler), one step    *)
(* per lock operation and per read/write of a shared table; main() with    *)
(* its accept loop and signal-driven shutdown; the tokenizer of a request; *)
(* and the script-driven client (src/client.c, src/common.h).              *)
(***************************************************************************)
EXTENDS Integers, Naturals, Sequences, FiniteSets, TLC

\* ---------------------------------------------------------------- bounds
\* Handler threads alive at the same time (the code spawns without bound).
NumHandlers == 2
\* Longest books.conf the bootstrap is tried on, in lines beyond MAX_BOOKS.
ExtraConfigLines == 1

\* ------------------------------------------------------ program constants
\* #define MAX_USERS 100 / MAX_BOOKS 100, scaled down so that the tables fill.
MAX_USERS == 2
MAX_BOOKS == 3

Handlers == 1 .. NumHandlers
NoHandler == 0

\* Usernames and titles that requests carry.
Names == {"alice", "bob"}
Titles == {"Harry_Potter", "Dune"}
\* Lines a books.conf is made of: a title or an empty line.
ConfigLines == {"Dune", ""}
DefaultTitles == <<"Harry_Potter", "1984", "To_Kill_a_Mockingbird">>

\* Requests after tokenizing: command, arg1, arg2 (zeroed when absent).
Req(c, a1, a2) == [command |-> c, arg1 |-> a1, arg2 |-> a2]
NoReq == Req("", "", "")
Requests ==
    {Req("Register", n, "") : n \in Names}
      \cup {Req("Lend", t, n) : t \in Titles, n \in Names}
      \cup {Req("Return", t, "") : t \in Titles}
      \cup {Req("AddBook", t, "") : t \in Titles}
      \cup {Req("Renew", t, "") : t \in {"Dune"}}

\* Responses: the literal strings; `success <id>` carries the id.
Resp(m) == [msg |-> m, id |-> 0]
SuccessId(k) == [msg |-> "success %d", id |-> k]
NoResp == Resp("")

VARIABLES
    users, user_count,      \* User users[MAX_USERS]; int user_count
    books, book_count,      \* Book books[MAX_BOOKS]; int book_count
    user_lock, book_lock,   \* pthread_rwlock_t: writer and set of readers
    pc,                     \* position of each handler thread
    req,                    \* command, arg1, arg2 of each handler
    user_exists, idx,       \* locals of client_handler
    response,               \* response buffer of each handler
    granted,                \* history: ids answered by Register, in lock order
    lent,                   \* history: successful Lends per title since its last Return
    fresh,                  \* history: title added by AddBook and not asked for by a Lend since
    keep_running,           \* volatile sig_atomic_t keep_running
    apc,                    \* position of main() in and after the accept loop
    new_socket,             \* int new_socket: what accept returned, -1 or a connection
    server_fd,              \* the listening socket: "open" or "closed"
    locks,                  \* the two rwlocks: "ready" or "destroyed"
    thread,                 \* per handler slot: "none", or "live" from pthread_create to return
    sock,                   \* per handler slot: the connection its thread was given, 0 for none
    accepted,               \* history: connections returned by accept so far
    late,                   \* history: new_socket was returned while keep_running was 0
    started_late,           \* history: accept calls entered while keep_running was 0
    completed_late,         \* history: accept calls that returned while keep_running was 0
    open_socks,             \* connections accepted and not yet closed by the server
    rd,                     \* per handler slot: how its thread's read ended: "none", "ok", "error"
    nsent,                  \* per handler slot: responses its thread has sent
    nwrites,                \* per handler slot: table writes its thread has made
    buffer,                 \* char buffer[BUFFER_SIZE] of a handler, as read from the socket
    tokens,                 \* command, arg1, arg2 as sscanf leaves them
    tpc,                    \* position of the tokenizing handler: "read", "scanned"
    revision,               \* the client's simulate_user: "per_command" (client.c) or "reuse" (common.h)
    script,                 \* the lines of the client's script file
    line,                   \* index of the script line the client is at
    cpc,                    \* position of the client thread
    connected,              \* int connected of the connection-reusing client
    chan,                   \* the client's current connection, both directions
    received                \* history: per network command, what the client's read gave

\* The tables, the locks and the handler threads.
hvars == <<users, user_count, books, book_count, user_lock, book_lock,
           pc, req, user_exists, idx, response, granted, lent, fresh>>
\* main(): the termination flag and the accept loop.
mvars == <<keep_running, apc, new_socket, server_fd, locks, thread, sock,
           accepted, late, started_late, completed_late,
           open_socks, rd, nsent, nwrites>>

\* One handler's request buffer and tokens.
tvars == <<buffer, tokens, tpc>>
\* The client process.
cvars == <<revision, script, line, cpc, connected, chan, received>>
\* What lies outside the tables, the threads and main().
xvars == <<tvars, cvars>>

vars == <<hvars, mvars, xvars>>

\* ------------------------------------------------------------ the tables
ZeroUser == [name |-> "", id |-> 0]
ZeroBook == [title |-> "", available |-> 0]

RECURSIVE ScanBooks(_, _, _, _)
ScanBooks(bs, n, title, i) ==
    IF i >= n THEN -1
    ELSE IF bs[i].title = title THEN i
    ELSE ScanBooks(bs, n, title, i + 1)

find_book_index(title) == ScanBooks(books, book_count, title, 0)

RECURSIVE ScanUsers(_, _, _, _)
ScanUsers(us, n, name, i) ==
    IF i >= n THEN -1
    ELSE IF us[i].name = name THEN i
    ELSE ScanUsers(us, n, name, i + 1)

\* Variant: the scan starts at entry 1.
find_user_by_name_SkipFirst(name) == ScanUsers(users, user_count, name, 1)

find_user_by_name(name) == ScanUsers(users, user_count, name, 0)

\* ------------------------------------------------------------- bootstrap
\* A books.conf: absent, or its lines in order.
NoFile == <<"<no file>">>
RECURSIVE SeqsUpTo(_, _)
SeqsUpTo(S, n) ==
    IF n = 0 THEN {<<>>}
    ELSE LET shorter == SeqsUpTo(S, n - 1)
         IN  shorter \cup {Append(s, x) : s \in {t \in shorter : Len(t) = n - 1}, x \in S}
ConfigFiles == {NoFile} \cup SeqsUpTo(ConfigLines, MAX_BOOKS + ExtraConfigLines)

\* while (fgets(line) && book_count < MAX_BOOKS): skip empty lines, else append.
RECURSIVE LoadLoop(_, _, _, _)
LoadLoop(lines, i, bs, n) ==
    IF i > Len(lines) \/ ~(n < MAX_BOOKS) THEN [books |-> bs, book_count |-> n]
    ELSE IF lines[i] = "" THEN LoadLoop(lines, i + 1, bs, n)
    ELSE LoadLoop(lines, i + 1,
                  [bs EXCEPT ![n] = [title |-> lines[i], available |-> 1]], n + 1)

\* The tables load_books_from_file leaves behind; its return value is book_count.
load_books_from_file(file) ==
    LET zero == [i \in 0 .. MAX_BOOKS - 1 |-> ZeroBook]
    IN  IF file = NoFile THEN [books |-> zero, book_count |-> 0]
        ELSE LoadLoop(file, 1, zero, 0)

\* main(): load books.conf, fall back to the three defaults when it gave none.
Bootstrap(file) ==
    LET loaded == load_books_from_file(file)
    IN  IF loaded.book_count = 0
        THEN [books |-> [i \in 0 .. MAX_BOOKS - 1 |->
                            IF i < 3 THEN [title |-> DefaultTitles[i + 1], available |-> 1]
                            ELSE ZeroBook],
              book_count |-> 3]
        ELSE loaded

FreeLock == [writer |-> NoHandler, readers |-> {}]

ServerInit ==
    /\ users = [i \in 0 .. MAX_USERS - 1 |-> ZeroUser]
    /\ user_count = 0
    /\ \E file \in ConfigFiles :
          /\ books = Bootstrap(file).books
          /\ book_count = Bootstrap(file).book_count
    /\ user_lock = FreeLock
    /\ book_lock = FreeLock
    /\ pc = [h \in Handlers |-> "idle"]
    /\ req = [h \in Handlers |-> NoReq]
    /\ user_exists = [h \in Handlers |-> FALSE]
    /\ idx = [h \in Handlers |-> -1]
    /\ response = [h \in Handlers |-> NoResp]
    /\ granted = <<>>
    /\ lent = [t \in Titles |-> 0]
    /\ fresh = [t \in Titles |-> FALSE]
    /\ keep_running = 1
    /\ apc = "test"
    /\ new_socket = -1
    /\ server_fd = "open"
    /\ locks = "ready"
    /\ thread = [h \in Handlers |-> "none"]
    /\ sock = [h \in Handlers |-> 0]
    /\ accepted = 0
    /\ late = FALSE
    /\ started_late = 0
    /\ completed_late = 0
    /\ open_socks = {}
    /\ rd = [h \in Handlers |-> "none"]
    /\ nsent = [h \in Handlers |-> 0]
    /\ nwrites = [h \in Handlers |-> 0]

\* -------------------------------------------------------- the tokenizer
\* The field width of sscanf(buffer, "%49s %49s %49s", command, arg1, arg2).
TOKEN_WIDTH == 49
\* Words a request line is made of, at most.
MaxWords == 3

\* Strings are sequences of one-character strings; " " is the whitespace.
IsSpace(c) == c = " "
Repeat(n) == [i \in 1 .. n |-> IF i % 2 = 1 THEN "x" ELSE "y"]
LineWords ==
    {<<"L", "e", "n", "d">>, <<"a", "l", "i", "c", "e">>,
     Repeat(TOKEN_WIDTH), Repeat(TOKEN_WIDTH + 1), Repeat(2 * TOKEN_WIDTH + 2)}

RECURSIVE JoinWords(_)
JoinWords(ws) ==
    IF Len(ws) = 0 THEN <<>>
    ELSE IF Len(ws) = 1 THEN ws[1]
    ELSE ws[1] \o <<" ">> \o JoinWords(Tail(ws))

\* Request lines: words separated by one space, with or without a leading one.
Lines ==
    LET plain == {JoinWords(ws) : ws \in SeqsUpTo(LineWords, MaxWords)}
    IN  plain \cup {<<" ">> \o l : l \in plain}

\* What an uninitialized char command[50] may hold as a string.
Garbage == {<<>>, <<"?">>}

\* Whitespace in the format, and before %s: skip whitespace in the input.
RECURSIVE SkipSpace(_, _)
SkipSpace(buf, i) ==
    IF i <= Len(buf) /\ IsSpace(buf[i]) THEN SkipSpace(buf, i + 1) ELSE i

\* The index after a whole word, whatever its length.
RECURSIVE ScanWord_DropRest(_, _, _)
ScanWord_DropRest(buf, i, n) ==
    IF i > Len(buf) \/ IsSpace(buf[i]) THEN i
    ELSE ScanWord_DropRest(buf, i + 1, n + 1)

\* %49s: the index after the last character taken, at most TOKEN_WIDTH
\* characters from i on, up to whitespace or the end of the input.
RECURSIVE ScanWord(_, _, _)
ScanWord(buf, i, n) ==
    IF i > Len(buf) \/ IsSpace(buf[i]) \/ n >= TOKEN_WIDTH THEN i
    ELSE ScanWord(buf, i + 1, n + 1)

\* One %49s directive from index i: the token stored and where the scan goes on;
\* nothing is stored at the end of the input.
Directive(buf, i) ==
    LET from == SkipSpace(buf, i)
        to == ScanWord(buf, from, 0)
    IN  [tok |-> SubSeq(buf, from, IF to - from > TOKEN_WIDTH
                                    THEN from + TOKEN_WIDTH - 1 ELSE to - 1),
         stored |-> to > from,
         next |-> to]

\* memset(arg1), memset(arg2), then sscanf: it stops at the first directive
\* that finds no input; command keeps its old content when nothing is stored.
sscanf(buf, old) ==
    LET d1 == Directive(buf, 1)
        d2 == Directive(buf, d1.next)
        d3 == Directive(buf, d2.next)
    IN  [command |-> IF d1.stored THEN d1.tok ELSE old,
         arg1 |-> IF d1.stored /\ d2.stored THEN d2.tok ELSE <<>>,
         arg2 |-> IF d1.stored /\ d2.stored /\ d3.stored THEN d3.tok ELSE <<>>]

NoTokens == [command |-> <<>>, arg1 |-> <<>>, arg2 |-> <<>>]

\* No request is being tokenized.
TokIdle ==
    /\ buffer = <<>>
    /\ tokens = NoTokens
    /\ tpc = "scanned"

\* read() has filled the buffer with a request line.
TokFilled ==
    /\ buffer \in Lines
    /\ tokens = NoTokens
    /\ tpc = "read"

\* lines 101-105 of client_handler on the buffer.
Tokenize ==
    /\ tpc = "read"
    /\ \E old \in Garbage : tokens' = sscanf(buffer, old)
    /\ tpc' = "scanned"
    /\ UNCHANGED <<buffer, cvars, hvars, mvars>>

\* ------------------------------------------------------------ the client
\* state: "none", "pending" (connected, not served), "handling", "closed" (by
\* the server); stale: data sent after the server closed; reset: RST received.
NoChan ==
    [state |-> "none", inbox |-> NoReq, outbox |-> NoResp,
     stale |-> FALSE, reset |-> FALSE]

\* No client runs.
ClientIdle ==
    /\ revision = "per_command"
    /\ script = <<>>
    /\ line = 1
    /\ cpc = "done"
    /\ connected = 0
    /\ chan = NoChan
    /\ received = <<>>

Init == ServerInit /\ TokIdle /\ ClientIdle

\* ------------------------------------------------------------ the locks
\* pthread_rwlock_wrlock returns once no thread holds the lock.
CanWrLock(l) == l.writer = NoHandler /\ l.readers = {}
WrLock(l, h) == [l EXCEPT !.writer = h]
\* pthread_rwlock_rdlock returns once no writer holds the lock.
CanRdLock(l) == l.writer = NoHandler
RdLock(l, h) == [l EXCEPT !.readers = @ \cup {h}]
\* pthread_rwlock_unlock releases whatever hold the caller has.
Unlock(l, h) ==
    [writer |-> IF l.writer = h THEN NoHandler ELSE l.writer,
     readers |-> l.readers \ {h}]
Holds(l, h) == l.writer = h \/ h \in l.readers

\* ------------------------------------------------------- handler threads
Goto(h, label) == pc' = [pc EXCEPT ![h] = label]
Answer(h, r) == response' = [response EXCEPT ![h] = r]

\* The strcmp chain on command: where the handler goes next.
Dispatch(command) ==
    IF command = "Register" THEN "reg_wrlock"
    ELSE IF command = "Lend" THEN "lend_rdlock"
    ELSE IF command = "Return" THEN "ret_wrlock"
    ELSE IF command = "AddBook" THEN "add_wrlock"
    ELSE "send"

\* accept + pthread_create + read + sscanf + the strcmp chain: a thread starts
\* on a request; a command that is none of the four is answered at once.
ReadRequest(h, r) ==
    /\ pc[h] = "idle"
    /\ req' = [req EXCEPT ![h] = r]
    /\ Goto(h, Dispatch(r.command))
    /\ IF Dispatch(r.command) = "send"
       THEN Answer(h, Resp("failure (unknown command)"))
       ELSE UNCHANGED response
    /\ UNCHANGED <<users, user_count, books, book_count, user_lock, book_lock,
                   user_exists, idx, granted, lent, fresh>>

\* ---- Register
\* Variant: pthread_rwlock_rdlock in place of the write lock.
RegisterLock_Shared(h) ==
    /\ pc[h] = "reg_wrlock"
    /\ CanRdLock(user_lock)
    /\ user_lock' = RdLock(user_lock, h)
    /\ Goto(h, "reg_check")
    /\ UNCHANGED <<users, user_count, books, book_count, book_lock,
                   req, user_exists, idx, response, granted, lent, fresh>>

RegisterLock(h) ==
    /\ pc[h] = "reg_wrlock"
    /\ CanWrLock(user_lock)
    /\ user_lock' = WrLock(user_lock, h)
    /\ Goto(h, "reg_check")
    /\ UNCHANGED <<users, user_count, books, book_count, book_lock,
                   req, user_exists, idx, response, granted, lent, fresh>>

\* Variant: > in place of >=.
AtUserCapacity_OffByOne == user_count > MAX_USERS

AtUserCapacity == user_count >= MAX_USERS

\* The capacity check, then the duplicate check.
RegisterCheck(h) ==
    /\ pc[h] = "reg_check"
    /\ IF AtUserCapacity
       THEN Answer(h, Resp("failure (max users reached)")) /\ Goto(h, "reg_unlock")
       ELSE IF find_user_by_name(req[h].arg1) # -1
       THEN Answer(h, Resp("failure (user already exists)")) /\ Goto(h, "reg_unlock")
       ELSE Goto(h, "reg_append") /\ UNCHANGED response
    /\ UNCHANGED <<users, user_count, books, book_count, user_lock, book_lock,
                   req, user_exists, idx, granted, lent, fresh>>

\* Variant: the id taken before the increment is counted in.
new_id_FromZero == user_count

new_id == user_count + 1

\* Variant: the new user is written over entry 0.
RegisterAppend_Overwrite(h) ==
    /\ pc[h] = "reg_append"
    /\ users' = [users EXCEPT ![0] = [name |-> req[h].arg1, id |-> new_id]]
    /\ user_count' = user_count + 1
    /\ Answer(h, SuccessId(new_id))
    /\ granted' = Append(granted, new_id)
    /\ Goto(h, "reg_unlock")
    /\ UNCHANGED <<books, book_count, user_lock, book_lock, req, user_exists, idx, lent, fresh>>

\* Create new user: users[user_count] = {arg1, new_id}; user_count++.
RegisterAppend(h) ==
    /\ pc[h] = "reg_append"
    /\ users' = [users EXCEPT ![user_count] = [name |-> req[h].arg1, id |-> new_id]]
    /\ user_count' = user_count + 1
    /\ Answer(h, SuccessId(new_id))
    /\ granted' = Append(granted, new_id)
    /\ Goto(h, "reg_unlock")
    /\ UNCHANGED <<books, book_count, user_lock, book_lock, req, user_exists, idx, lent, fresh>>

\* Variant: the Register branch ends without pthread_rwlock_unlock.
RegisterUnlock_Missing(h) ==
    /\ pc[h] = "reg_unlock"
    /\ Goto(h, "send")
    /\ UNCHANGED <<users, user_count, books, book_count, user_lock, book_lock,
                   req, user_exists, idx, response, granted, lent, fresh>>

RegisterUnlock(h) ==
    /\ pc[h] = "reg_unlock"
    /\ user_lock' = Unlock(user_lock, h)
    /\ Goto(h, "send")
    /\ UNCHANGED <<users, user_count, books, book_count, book_lock,
                   req, user_exists, idx, response, granted, lent, fresh>>

\* ---- Lend
\* 1. Verify User (Read Lock)
LendUserLock(h) ==
    /\ pc[h] = "lend_rdlock"
    /\ CanRdLock(user_lock)
    /\ user_lock' = RdLock(user_lock, h)
    /\ Goto(h, "lend_verify")
    /\ UNCHANGED <<users, user_count, books, book_count, book_lock,
                   req, user_exists, idx, response, granted, lent, fresh>>

\* Variant: user_idx itself used as the truth value.
LendVerifyUser_Truthy(h) ==
    /\ pc[h] = "lend_verify"
    /\ user_exists' = [user_exists EXCEPT ![h] = (find_user_by_name(req[h].arg2) # 0)]
    /\ Goto(h, "lend_rdunlock")
    /\ UNCHANGED <<users, user_count, books, book_count, user_lock, book_lock,
                   req, idx, response, granted, lent, fresh>>

LendVerifyUser(h) ==
    /\ pc[h] = "lend_verify"
    /\ user_exists' = [user_exists EXCEPT ![h] = (find_user_by_name(req[h].arg2) # -1)]
    /\ Goto(h, "lend_rdunlock")
    /\ UNCHANGED <<users, user_count, books, book_count, user_lock, book_lock,
                   req, idx, response, granted, lent, fresh>>

\* Variant: the Users lock kept while the book is lent.
LendUserUnlock_Nested(h) ==
    /\ pc[h] = "lend_rdunlock"
    /\ IF ~user_exists[h]
       THEN /\ user_lock' = Unlock(user_lock, h)
            /\ Answer(h, Resp("failure (user not found)")) /\ Goto(h, "send")
       ELSE /\ UNCHANGED user_lock
            /\ Goto(h, "lend_wrlock") /\ UNCHANGED response
    /\ UNCHANGED <<users, user_count, books, book_count, book_lock,
                   req, user_exists, idx, granted, lent, fresh>>

\* The unlock, then the branch on user_exists.
LendUserUnlock(h) ==
    /\ pc[h] = "lend_rdunlock"
    /\ user_lock' = Unlock(user_lock, h)
    /\ IF ~user_exists[h]
       THEN Answer(h, Resp("failure (user not found)")) /\ Goto(h, "send")
       ELSE Goto(h, "lend_wrlock") /\ UNCHANGED response
    /\ UNCHANGED <<users, user_count, books, book_count, book_lock,
                   req, user_exists, idx, granted, lent, fresh>>

\* 2. Lend Book (Write Lock)
\* Variant: pthread_rwlock_rdlock in place of the write lock.
LendBookLock_Shared(h) ==
    /\ pc[h] = "lend_wrlock"
    /\ CanRdLock(book_lock)
    /\ book_lock' = RdLock(book_lock, h)
    /\ Goto(h, "lend_check")
    /\ UNCHANGED <<users, user_count, books, book_count, user_lock,
                   req, user_exists, idx, response, granted, lent, fresh>>

LendBookLock(h) ==
    /\ pc[h] = "lend_wrlock"
    /\ CanWrLock(book_lock)
    /\ book_lock' = WrLock(book_lock, h)
    /\ Goto(h, "lend_check")
    /\ UNCHANGED <<users, user_count, books, book_count, user_lock,
                   req, user_exists, idx, response, granted, lent, fresh>>

\* idx = find_book_index(arg1); the test idx != -1 && books[idx].available.
LendCheck(h) ==
    /\ pc[h] = "lend_check"
    /\ LET i == find_book_index(req[h].arg1)
       IN  /\ idx' = [idx EXCEPT ![h] = i]
           /\ IF i # -1 /\ books[i].available # 0
              THEN Goto(h, "lend_set") /\ UNCHANGED response
              ELSE /\ Answer(h, Resp("failure (book not available)"))
                   /\ Goto(h, "lend_unlock")
    /\ fresh' = [fresh EXCEPT ![req[h].arg1] = FALSE]
    /\ UNCHANGED <<users, user_count, books, book_count, user_lock, book_lock,
                   req, user_exists, granted, lent>>

\* books[idx].available = 0; the answer is success.
LendSet(h) ==
    /\ pc[h] = "lend_set"
    /\ books' = [books EXCEPT ![idx[h]].available = 0]
    /\ Answer(h, Resp("success"))
    /\ lent' = [lent EXCEPT ![req[h].arg1] = @ + 1]
    /\ Goto(h, "lend_unlock")
    /\ UNCHANGED <<users, user_count, book_count, user_lock, book_lock,
                   req, user_exists, idx, granted, fresh>>

LendBookUnlock(h) ==
    /\ pc[h] = "lend_unlock"
    /\ book_lock' = Unlock(book_lock, h)
    /\ Goto(h, "send")
    /\ UNCHANGED <<users, user_count, books, book_count, user_lock,
                   req, user_exists, idx, response, granted, lent, fresh>>

\* ---- Return
ReturnLock(h) ==
    /\ pc[h] = "ret_wrlock"
    /\ CanWrLock(book_lock)
    /\ book_lock' = WrLock(book_lock, h)
    /\ Goto(h, "ret_check")
    /\ UNCHANGED <<users, user_count, books, book_count, user_lock,
                   req, user_exists, idx, response, granted, lent, fresh>>

\* idx = find_book_index(arg1); the test idx != -1.
ReturnCheck(h) ==
    /\ pc[h] = "ret_check"
    /\ LET i == find_book_index(req[h].arg1)
       IN  /\ idx' = [idx EXCEPT ![h] = i]
           /\ IF i # -1
              THEN Goto(h, "ret_set") /\ UNCHANGED response
              ELSE /\ Answer(h, Resp("failure (book not found)"))
                   /\ Goto(h, "ret_unlock")
    /\ UNCHANGED <<users, user_count, books, book_count, user_lock, book_lock,
                   req, user_exists, granted, lent, fresh>>

\* Variant: the flag is left as it is.
ReturnSet_FlagKept(h) ==
    /\ pc[h] = "ret_set"
    /\ Answer(h, Resp("success"))
    /\ lent' = [lent EXCEPT ![req[h].arg1] = 0]
    /\ Goto(h, "ret_unlock")
    /\ UNCHANGED <<users, user_count, books, book_count, user_lock, book_lock,
                   req, user_exists, idx, granted, fresh>>

\* books[idx].available = 1; the answer is success.
ReturnSet(h) ==
    /\ pc[h] = "ret_set"
    /\ books' = [books EXCEPT ![idx[h]].available = 1]
    /\ Answer(h, Resp("success"))
    /\ lent' = [lent EXCEPT ![req[h].arg1] = 0]
    /\ Goto(h, "ret_unlock")
    /\ UNCHANGED <<users, user_count, book_count, user_lock, book_lock,
                   req, user_exists, idx, granted, fresh>>

ReturnUnlock(h) ==
    /\ pc[h] = "ret_unlock"
    /\ book_lock' = Unlock(book_lock, h)
    /\ Goto(h, "send")
    /\ UNCHANGED <<users, user_count, books, book_count, user_lock,
                   req, user_exists, idx, response, granted, lent, fresh>>

\* ---- AddBook
AddBookLock(h) ==
    /\ pc[h] = "add_wrlock"
    /\ CanWrLock(book_lock)
    /\ book_lock' = WrLock(book_lock, h)
    /\ Goto(h, "add_check")
    /\ UNCHANGED <<users, user_count, books, book_count, user_lock,
                   req, user_exists, idx, response, granted, lent, fresh>>

\* Variant: <= in place of <.
BookRoomLeft_OffByOne == book_count <= MAX_BOOKS

BookRoomLeft == book_count < MAX_BOOKS

AddBookCheck(h) ==
    /\ pc[h] = "add_check"
    /\ IF BookRoomLeft
       THEN Goto(h, "add_append") /\ UNCHANGED response
       ELSE Answer(h, Resp("failure (library full)")) /\ Goto(h, "add_unlock")
    /\ UNCHANGED <<users, user_count, books, book_count, user_lock, book_lock,
                   req, user_exists, idx, granted, lent, fresh>>

\* Variant: the new entry starts unavailable.
AddBookAppend_Unavailable(h) ==
    /\ pc[h] = "add_append"
    /\ books' = [books EXCEPT ![book_count] = [title |-> req[h].arg1, available |-> 0]]
    /\ book_count' = book_count + 1
    /\ Answer(h, Resp("success"))
    /\ Goto(h, "add_unlock")
    /\ fresh' = [fresh EXCEPT ![req[h].arg1] = TRUE]
    /\ UNCHANGED <<users, user_count, user_lock, book_lock,
                   req, user_exists, idx, granted, lent>>

AddBookAppend(h) ==
    /\ pc[h] = "add_append"
    /\ books' = [books EXCEPT ![book_count] = [title |-> req[h].arg1, available |-> 1]]
    /\ book_count' = book_count + 1
    /\ Answer(h, Resp("success"))
    /\ Goto(h, "add_unlock")
    /\ fresh' = [fresh EXCEPT ![req[h].arg1] = TRUE]
    /\ UNCHANGED <<users, user_count, user_lock, book_lock,
                   req, user_exists, idx, granted, lent>>

AddBookUnlock(h) ==
    /\ pc[h] = "add_unlock"
    /\ book_lock' = Unlock(book_lock, h)
    /\ Goto(h, "send")
    /\ UNCHANGED <<users, user_count, books, book_count, user_lock,
                   req, user_exists, idx, response, granted, lent, fresh>>

\* ---- send(sock, response); close(sock); return NULL: the thread is gone.
SendAndClose(h) ==
    /\ pc[h] = "send"
    /\ Goto(h, "idle")
    /\ req' = [req EXCEPT ![h] = NoReq]
    /\ user_exists' = [user_exists EXCEPT ![h] = FALSE]
    /\ idx' = [idx EXCEPT ![h] = -1]
    /\ response' = [response EXCEPT ![h] = NoResp]
    /\ UNCHANGED <<users, user_count, books, book_count, user_lock, book_lock,
                   granted, lent, fresh>>

\* The handler threads while main() stays in its accept loop.
Next ==
    \E h \in Handlers :
        \/ \E r \in Requests : ReadRequest(h, r) /\ UNCHANGED <<mvars, xvars>>
        \/ RegisterLock(h) /\ UNCHANGED <<mvars, xvars>>
        \/ RegisterCheck(h) /\ UNCHANGED <<mvars, xvars>>
        \/ RegisterAppend(h) /\ UNCHANGED <<mvars, xvars>>
        \/ RegisterUnlock(h) /\ UNCHANGED <<mvars, xvars>>
        \/ LendUserLock(h) /\ UNCHANGED <<mvars, xvars>>
        \/ LendVerifyUser(h) /\ UNCHANGED <<mvars, xvars>>
        \/ LendUserUnlock(h) /\ UNCHANGED <<mvars, xvars>>
        \/ LendBookLock(h) /\ UNCHANGED <<mvars, xvars>>
        \/ LendCheck(h) /\ UNCHANGED <<mvars, xvars>>
        \/ LendSet(h) /\ UNCHANGED <<mvars, xvars>>
        \/ LendBookUnlock(h) /\ UNCHANGED <<mvars, xvars>>
        \/ ReturnLock(h) /\ UNCHANGED <<mvars, xvars>>
        \/ ReturnCheck(h) /\ UNCHANGED <<mvars, xvars>>
        \/ ReturnSet(h) /\ UNCHANGED <<mvars, xvars>>
        \/ ReturnUnlock(h) /\ UNCHANGED <<mvars, xvars>>
        \/ AddBookLock(h) /\ UNCHANGED <<mvars, xvars>>
        \/ AddBookCheck(h) /\ UNCHANGED <<mvars, xvars>>
        \/ AddBookAppend(h) /\ UNCHANGED <<mvars, xvars>>
        \/ AddBookUnlock(h) /\ UNCHANGED <<mvars, xvars>>
        \/ SendAndClose(h) /\ UNCHANGED <<mvars, xvars>>

Spec == Init /\ [][Next]_vars

\* A step of handler h after it has read its request.
HandlerProgress(h) ==
    /\ \/ RegisterLock(h)
       \/ RegisterCheck(h)
       \/ RegisterAppend(h)
       \/ RegisterUnlock(h)
       \/ LendUserLock(h)
       \/ LendVerifyUser(h)
       \/ LendUserUnlock(h)
       \/ LendBookLock(h)
       \/ LendCheck(h)
       \/ LendSet(h)
       \/ LendBookUnlock(h)
       \/ ReturnLock(h)
       \/ ReturnCheck(h)
       \/ ReturnSet(h)
       \/ ReturnUnlock(h)
       \/ AddBookLock(h)
       \/ AddBookCheck(h)
       \/ AddBookAppend(h)
       \/ AddBookUnlock(h)
       \/ SendAndClose(h)
    /\ UNCHANGED <<mvars, xvars>>

\* Handler h is inside pthread_rwlock_rdlock or pthread_rwlock_wrlock.
InLockCall(h) ==
    pc[h] \in {"reg_wrlock", "lend_rdlock", "lend_wrlock", "ret_wrlock", "add_wrlock"}

\* Every thread keeps being scheduled, and the locks grant fairly: no call of
\* rdlock or wrlock is passed over for ever.
\* One request of each command, on one user and one title.
FairRequests ==
    {Req("Register", "alice", ""), Req("Lend", "Dune", "alice"),
     Req("Return", "Dune", ""), Req("AddBook", "Dune", ""), Req("Renew", "Dune", "")}

FairNext ==
    \E h \in Handlers :
        \/ \E r \in FairRequests : ReadRequest(h, r) /\ UNCHANGED <<mvars, xvars>>
        \/ RegisterLock(h) /\ UNCHANGED <<mvars, xvars>>
        \/ RegisterCheck(h) /\ UNCHANGED <<mvars, xvars>>
        \/ RegisterAppend(h) /\ UNCHANGED <<mvars, xvars>>
        \/ RegisterUnlock(h) /\ UNCHANGED <<mvars, xvars>>
        \/ LendUserLock(h) /\ UNCHANGED <<mvars, xvars>>
        \/ LendVerifyUser(h) /\ UNCHANGED <<mvars, xvars>>
        \/ LendUserUnlock(h) /\ UNCHANGED <<mvars, xvars>>
        \/ LendBookLock(h) /\ UNCHANGED <<mvars, xvars>>
        \/ LendCheck(h) /\ UNCHANGED <<mvars, xvars>>
        \/ LendSet(h) /\ UNCHANGED <<mvars, xvars>>
        \/ LendBookUnlock(h) /\ UNCHANGED <<mvars, xvars>>
        \/ ReturnLock(h) /\ UNCHANGED <<mvars, xvars>>
        \/ ReturnCheck(h) /\ UNCHANGED <<mvars, xvars>>
        \/ ReturnSet(h) /\ UNCHANGED <<mvars, xvars>>
        \/ ReturnUnlock(h) /\ UNCHANGED <<mvars, xvars>>
        \/ AddBookLock(h) /\ UNCHANGED <<mvars, xvars>>
        \/ AddBookCheck(h) /\ UNCHANGED <<mvars, xvars>>
        \/ AddBookAppend(h) /\ UNCHANGED <<mvars, xvars>>
        \/ AddBookUnlock(h) /\ UNCHANGED <<mvars, xvars>>
        \/ SendAndClose(h) /\ UNCHANGED <<mvars, xvars>>

FairSpec ==
    /\ Init /\ [][FairNext]_vars
    /\ \A h \in Handlers : WF_vars(HandlerProgress(h))
    /\ \A h \in Handlers : []<>(~InLockCall(h))

\* ------------------------------------------------- main(): the accept loop
\* Connections the clients open over a run.
MaxAccepts == 2

\* Positions of main() once it has left the loop.
Exiting == {"close_fd", "destroy", "stopped"}

\* The process is gone: main() returned, or it was killed by a fault.
ProcessEnded == apc \in {"stopped", "crashed"}

\* handle_sigterm, at any point while the process runs.
handle_sigterm ==
    /\ ~ProcessEnded
    /\ keep_running' = 0
    /\ UNCHANGED <<apc, new_socket, server_fd, locks, thread, sock,
                   accepted, late, started_late, completed_late,
                   open_socks, rd, nsent, nwrites>>

\* while (keep_running)
AcceptorTest ==
    /\ apc = "test"
    /\ apc' = IF keep_running = 1 THEN "call" ELSE "close_fd"
    /\ UNCHANGED <<keep_running, new_socket, server_fd, locks, thread, sock,
                   accepted, late, started_late, completed_late,
                   open_socks, rd, nsent, nwrites>>

\* The accept call is entered.
AcceptStart ==
    /\ apc = "call"
    /\ apc' = "accept"
    /\ started_late' = started_late + (IF keep_running = 0 THEN 1 ELSE 0)
    /\ UNCHANGED <<keep_running, new_socket, server_fd, locks, thread, sock,
                   accepted, late, completed_late,
                   open_socks, rd, nsent, nwrites>>

\* accept returns: a new connection, or -1 when SO_RCVTIMEO expires.
AcceptReturn ==
    /\ apc = "accept"
    /\ \/ /\ accepted < MaxAccepts
          /\ \E h \in Handlers : thread[h] = "none"
          /\ new_socket' = accepted + 1
          /\ accepted' = accepted + 1
          /\ open_socks' = open_socks \cup {accepted + 1}
       \/ /\ new_socket' = -1
          /\ UNCHANGED <<accepted, open_socks>>
    /\ late' = (keep_running = 0)
    /\ completed_late' = completed_late + (IF keep_running = 0 THEN 1 ELSE 0)
    /\ apc' = "check"
    /\ UNCHANGED <<keep_running, server_fd, locks, thread, sock, started_late,
                   rd, nsent, nwrites>>

\* Variant: without `if (!keep_running) break;`.
AcceptorCheck_NoBreak ==
    /\ apc = "check"
    /\ apc' = IF new_socket < 0 THEN "test" ELSE "create"
    /\ UNCHANGED <<keep_running, new_socket, server_fd, locks, thread, sock,
                   accepted, late, started_late, completed_late,
                   open_socks, rd, nsent, nwrites>>

\* if (!keep_running) break; if (new_socket < 0) continue;
AcceptorCheck ==
    /\ apc = "check"
    /\ apc' = IF keep_running = 0 THEN "close_fd"
              ELSE IF new_socket < 0 THEN "test"
              ELSE "create"
    /\ UNCHANGED <<keep_running, new_socket, server_fd, locks, thread, sock,
                   accepted, late, started_late, completed_late,
                   open_socks, rd, nsent, nwrites>>

\* malloc + pthread_create + pthread_detach: a thread gets the connection.
CreateHandler(h) ==
    /\ apc = "create"
    /\ thread[h] = "none"
    /\ thread' = [thread EXCEPT ![h] = "live"]
    /\ sock' = [sock EXCEPT ![h] = new_socket]
    /\ rd' = [rd EXCEPT ![h] = "none"]
    /\ nsent' = [nsent EXCEPT ![h] = 0]
    /\ nwrites' = [nwrites EXCEPT ![h] = 0]
    /\ apc' = "test"
    /\ UNCHANGED <<keep_running, new_socket, server_fd, locks,
                   accepted, late, started_late, completed_late,
                   open_socks>>

\* pthread_create fails: it returns a positive error number, so the test
\* `< 0` is false and the error branch is skipped; new_sock is not freed, the
\* socket is not closed, and pthread_detach gets the handle pthread_create
\* never wrote: it returns an error, which is ignored, or faults.
CreateFails ==
    /\ apc = "create"
    /\ apc' \in {"test", "crashed"}
    /\ UNCHANGED <<keep_running, new_socket, server_fd, locks, thread, sock,
                   accepted, late, started_late, completed_late,
                   open_socks, rd, nsent, nwrites>>

\* close(server_fd)
AcceptorCloseFd ==
    /\ apc = "close_fd"
    /\ server_fd' = "closed"
    /\ apc' = "destroy"
    /\ UNCHANGED <<keep_running, new_socket, locks, thread, sock,
                   accepted, late, started_late, completed_late,
                   open_socks, rd, nsent, nwrites>>

\* Variant: main() joins the handler threads before it destroys the locks.
AcceptorDestroy_Joined ==
    /\ \A h \in Handlers : thread[h] = "none"
    /\ apc = "destroy"
    /\ locks' = "destroyed"
    /\ apc' = "stopped"
    /\ UNCHANGED <<keep_running, new_socket, server_fd, thread, sock,
                   accepted, late, started_late, completed_late,
                   open_socks, rd, nsent, nwrites>>

\* pthread_rwlock_destroy of both locks, then return 0.
AcceptorDestroy ==
    /\ apc = "destroy"
    /\ locks' = "destroyed"
    /\ apc' = "stopped"
    /\ UNCHANGED <<keep_running, new_socket, server_fd, thread, sock,
                   accepted, late, started_late, completed_late,
                   open_socks, rd, nsent, nwrites>>

AcceptorStep ==
    \/ AcceptorTest
    \/ AcceptStart
    \/ AcceptReturn
    \/ AcceptorCheck
    \/ \E h \in Handlers : CreateHandler(h)
    \/ CreateFails
    \/ AcceptorCloseFd
    \/ AcceptorDestroy

\* client_handler from its start to its return, the tables left aside.
HandlerRun(h) ==
    /\ thread[h] = "live"
    /\ ~ProcessEnded
    /\ thread' = [thread EXCEPT ![h] = "none"]
    /\ open_socks' = open_socks \ {sock[h]}
    /\ UNCHANGED <<keep_running, apc, new_socket, server_fd, locks, sock,
                   accepted, late, started_late, completed_late,
                   rd, nsent, nwrites>>

\* The accept loop, the signal and the threads it spawns.
AccNext ==
    \/ AcceptorTest /\ UNCHANGED <<hvars, xvars>>
    \/ AcceptStart /\ UNCHANGED <<hvars, xvars>>
    \/ AcceptReturn /\ UNCHANGED <<hvars, xvars>>
    \/ AcceptorCheck /\ UNCHANGED <<hvars, xvars>>
    \/ \E h \in Handlers : CreateHandler(h) /\ UNCHANGED <<hvars, xvars>>
    \/ CreateFails /\ UNCHANGED <<hvars, xvars>>
    \/ AcceptorCloseFd /\ UNCHANGED <<hvars, xvars>>
    \/ AcceptorDestroy /\ UNCHANGED <<hvars, xvars>>
    \/ handle_sigterm /\ UNCHANGED <<hvars, xvars>>
    \/ \E h \in Handlers : HandlerRun(h) /\ UNCHANGED <<hvars, xvars>>

AccSpec == Init /\ [][AccNext]_vars

\* main() keeps running, and every accept call returns (SO_RCVTIMEO).
AccFairSpec == AccSpec /\ WF_vars(AcceptorStep /\ UNCHANGED <<hvars, xvars>>)

\* ================================================================ claims
Registered(name) == \E i \in 0 .. user_count - 1 : users[i].name = name
\* Handler h takes the step that leaves label `from`.
Leaves(h, from) == pc[h] = from /\ pc'[h] # from
IsLend(h) == req[h].command = "Lend"

\* C1: the k-th successful Register, in the order of the Users write lock, is
\* answered `success k`: the ids granted are 1, 2, 3, ... with no gap and no
\* reuse, no other request moves the counter (user_count is the number of ids
\* granted), users[i].id = i + 1 for every i < user_count, and a handler holding
\* `success k` is a Register whose name sits in entry k - 1.
C1_SequentialIds ==
    /\ \A i \in 0 .. user_count - 1 : users[i].id = i + 1
    /\ granted = [k \in 1 .. Len(granted) |-> k]
    /\ Len(granted) = user_count
    /\ \A h \in Handlers :
          response[h].msg = "success %d" =>
             /\ req[h].command = "Register"
             /\ response[h].id \in 1 .. user_count
             /\ users[response[h].id - 1] = [name |-> req[h].arg1, id |-> response[h].id]

\* Two registrations answered, the second one `success 2`, while the other
\* handler holds a failed request that did not move the counter.
C1_Witness ==
    /\ granted = <<1, 2>>
    /\ \E h, g \in Handlers :
          /\ pc[h] = "send" /\ response[h] = SuccessId(2)
          /\ pc[g] = "send" /\ response[g].msg \notin {"success", "success %d"}

\* C2: no two entries of the Users table carry the same name, and the duplicate
\* check and the append of Register lie in one critical section of the Users
\* write lock: a handler between them is the writer, nobody reads, and no other
\* handler is at a step that reads or writes the table.
UsersAccess == {"reg_check", "reg_append", "lend_verify"}
C2_UniqueNames ==
    /\ \A i, j \in 0 .. user_count - 1 : users[i].name = users[j].name => i = j
    /\ \A h \in Handlers :
          pc[h] \in {"reg_check", "reg_append", "reg_unlock"} =>
             user_lock = [writer |-> h, readers |-> {}]
    /\ \A h \in Handlers :
          pc[h] = "reg_append" =>
             \A g \in Handlers \ {h} : pc[g] \notin UsersAccess

\* A Register past its duplicate check while another Register of the same name
\* waits for the lock.
C2_Witness ==
    \E h, g \in Handlers :
        /\ pc[h] = "reg_append" /\ pc[g] = "reg_wrlock"
        /\ req[h].arg1 = req[g].arg1
        /\ user_count = 1

\* C3: below capacity, a Register whose name is already in the table when it
\* holds the lock is answered `failure (user already exists)` and leaves users
\* and user_count as they are; one whose name is not in the table goes on to
\* append it and is answered `success <id>`; so of the Registers of one name
\* only the first to take the lock succeeds.
C3_OneRegistrationPerName ==
    [][\A h \in Handlers :
          /\ (Leaves(h, "reg_check") /\ user_count < MAX_USERS /\ Registered(req[h].arg1)) =>
                /\ response'[h] = Resp("failure (user already exists)")
                /\ pc'[h] = "reg_unlock"
                /\ users' = users /\ user_count' = user_count
          /\ (Leaves(h, "reg_check") /\ user_count < MAX_USERS /\ ~Registered(req[h].arg1)) =>
                pc'[h] = "reg_append"
          /\ Leaves(h, "reg_append") =>
                /\ ~Registered(req[h].arg1)
                /\ response'[h].msg = "success %d"
                /\ users'[user_count].name = req[h].arg1
                /\ user_count' = user_count + 1]_vars

\* A second Register of a registered name refused while the table has room.
C3_Witness ==
    \E h \in Handlers :
        /\ pc[h] = "send" /\ req[h].command = "Register"
        /\ response[h] = Resp("failure (user already exists)")
        /\ user_count < MAX_USERS

\* C4: between two Returns of a title at most one Lend of it is answered
\* `success`: the Lend that finds the first book of that title available goes
\* on to mark it and is answered `success`, and every Lend after a successful
\* one is answered `failure (book not available)` and leaves the table alone.
C4_OneLendSucceeds ==
    /\ [](\A t \in Titles : lent[t] <= 1)
    /\ [][\A h \in Handlers :
            LET t == req[h].arg1
                first == find_book_index(t)
            IN  /\ (Leaves(h, "lend_check") /\ first # -1 /\ books[first].available = 1) =>
                       lent[t] = 0 /\ pc'[h] = "lend_set"
                /\ (Leaves(h, "lend_check") /\ lent[t] >= 1) =>
                       /\ response'[h] = Resp("failure (book not available)")
                       /\ pc'[h] = "lend_unlock"
                       /\ books' = books
                /\ Leaves(h, "lend_set") =>
                       /\ lent[t] = 0 /\ first # -1
                       /\ response'[h] = Resp("success")
                       /\ books' = [books EXCEPT ![first].available = 0]]_vars

\* Two Lends of one title in flight: one answered success, the other refused.
C4_Witness ==
    \E h, g \in Handlers :
        /\ IsLend(h) /\ IsLend(g) /\ req[h].arg1 = req[g].arg1
        /\ pc[h] = "send" /\ response[h] = Resp("success")
        /\ pc[g] = "send" /\ response[g] = Resp("failure (book not available)")

\* C5: no handler holds the Users lock and the Books lock at the same time, and
\* a Lend that asks for the Books write lock has released the Users read lock.
C5_NeverBothLocks ==
    \A h \in Handlers :
        /\ ~(Holds(user_lock, h) /\ Holds(book_lock, h))
        /\ pc[h] = "lend_wrlock" => ~Holds(user_lock, h)

\* A Lend inside its Books critical section while another Lend reads Users.
C5_Witness ==
    \E h, g \in Handlers :
        /\ IsLend(h) /\ pc[h] = "lend_check" /\ book_lock.writer = h
        /\ IsLend(g) /\ pc[g] = "lend_verify" /\ g \in user_lock.readers

\* C6: a Lend whose username is not in the Users table when it is checked is
\* answered `failure (user not found)` by the step that follows the check,
\* which touches neither the Books table nor the Books lock; only a Lend that
\* found its user ever waits for or holds the Books lock.
BooksPart == {"lend_wrlock", "lend_check", "lend_set", "lend_unlock"}
C6_UnknownUserLeavesBooks ==
    /\ [](\A h \in Handlers : (IsLend(h) /\ pc[h] \in BooksPart) => user_exists[h])
    /\ [](\A h \in Handlers :
             response[h] = Resp("failure (user not found)") =>
                pc[h] = "send" /\ ~Holds(book_lock, h))
    /\ [][\A h \in Handlers :
            /\ (Leaves(h, "lend_verify") /\ ~Registered(req[h].arg2)) =>
                  ~user_exists'[h] /\ pc'[h] = "lend_rdunlock"
            /\ (Leaves(h, "lend_rdunlock") /\ ~user_exists[h]) =>
                  /\ response'[h] = Resp("failure (user not found)")
                  /\ pc'[h] = "send"
                  /\ books' = books /\ book_count' = book_count
                  /\ book_lock' = book_lock]_vars

\* A Lend refused for its user while the book it names is there and available.
C6_Witness ==
    \E h \in Handlers :
        /\ IsLend(h) /\ pc[h] = "send"
        /\ response[h] = Resp("failure (user not found)")
        /\ find_book_index(req[h].arg1) # -1
        /\ books[find_book_index(req[h].arg1)].available = 1

\* C7: a Return of a title that is not in the Books table is answered
\* `failure (book not found)` and changes neither table; a Return of a title
\* that is in the table (lent or not) is answered `success` and sets its first
\* book available; and a Lend that finds the title with no successful Lend
\* since its last Return is answered `success`.
C7_ReturnThenLend ==
    [][\A h \in Handlers :
          LET t == req[h].arg1
              first == find_book_index(t)
          IN  /\ (Leaves(h, "ret_check") /\ first = -1) =>
                    /\ response'[h] = Resp("failure (book not found)")
                    /\ pc'[h] = "ret_unlock"
                    /\ books' = books /\ book_count' = book_count
                    /\ users' = users /\ user_count' = user_count
              /\ (Leaves(h, "ret_check") /\ first # -1) => pc'[h] = "ret_set"
              /\ Leaves(h, "ret_set") =>
                    /\ first # -1
                    /\ response'[h] = Resp("success")
                    /\ books' = [books EXCEPT ![first].available = 1]
                    /\ lent'[t] = 0
              /\ (Leaves(h, "lend_check") /\ first # -1 /\ lent[t] = 0) =>
                    pc'[h] = "lend_set"
              /\ Leaves(h, "lend_set") => response'[h] = Resp("success")]_vars

\* A Return answered success for a title that the other handler had lent.
C7_Witness ==
    \E h, g \in Handlers :
        /\ req[h].command = "Return" /\ pc[h] = "ret_unlock"
        /\ response[h] = Resp("success")
        /\ IsLend(g) /\ pc[g] = "send" /\ response[g] = Resp("success")
        /\ req[g].arg1 = req[h].arg1
        /\ books[find_book_index(req[h].arg1)].available = 1

\* C8 as stated: the first Lend of T after a successful AddBook T is not
\* refused, whatever the catalog held before: it goes on to mark the book and
\* to answer `success`.
C8_AddedBookLendable ==
    [][\A h \in Handlers :
          (Leaves(h, "lend_check") /\ fresh[req[h].arg1]) =>
             /\ pc'[h] = "lend_set"
             /\ response'[h] # Resp("failure (book not available)")]_vars

\* C8 amended: a successful AddBook T appends an available entry titled T, so
\* lookups of T find a book; the first Lend of T after it is answered `success`
\* exactly when no Lend of T has succeeded since the last Return of T (the first
\* entry titled T is available), and `failure (book not available)` when an
\* earlier entry titled T is lent.
C8_AddedBookLendableIfFirstFree ==
    [][\A h \in Handlers :
          LET t == req[h].arg1
          IN  /\ Leaves(h, "add_append") =>
                    /\ response'[h] = Resp("success")
                    /\ books'[book_count] = [title |-> t, available |-> 1]
                    /\ book_count' = book_count + 1
                    /\ ScanBooks(books', book_count', t, 0) # -1
              /\ (Leaves(h, "lend_check") /\ fresh[t]) =>
                    /\ find_book_index(t) # -1
                    /\ lent[t] = 0 => pc'[h] = "lend_set"
                    /\ lent[t] >= 1 =>
                          /\ response'[h] = Resp("failure (book not available)")
                          /\ books[find_book_index(t)].available = 0
              /\ Leaves(h, "lend_set") => response'[h] = Resp("success")]_vars

\* The first Lend of a title after its AddBook, answered success, the title
\* being in the table twice.
C8_Witness ==
    \E h \in Handlers :
        /\ IsLend(h) /\ pc[h] = "lend_unlock" /\ response[h] = Resp("success")
        /\ \E i, j \in 0 .. book_count - 1 :
              i < j /\ books[i].title = req[h].arg1 /\ books[j].title = req[h].arg1
        /\ \E g \in Handlers :
              /\ req[g] = Req("AddBook", req[h].arg1, "")
              /\ pc[g] = "send" /\ response[g] = Resp("success")

\* C9: user_count never exceeds MAX_USERS, and a Register that holds the lock
\* with the table at capacity is answered `failure (max users reached)` and
\* leaves the table alone, whether or not its name is registered.
C9_UserCapacity ==
    /\ [](user_count <= MAX_USERS)
    /\ [][\A h \in Handlers :
            (Leaves(h, "reg_check") /\ user_count >= MAX_USERS) =>
               /\ response'[h] = Resp("failure (max users reached)")
               /\ pc'[h] = "reg_unlock"
               /\ users' = users /\ user_count' = user_count]_vars

\* At capacity, a Register of a name that is in the table refused for capacity.
C9_Witness ==
    \E h \in Handlers :
        /\ user_count = MAX_USERS
        /\ pc[h] = "send" /\ response[h] = Resp("failure (max users reached)")
        /\ Registered(req[h].arg1)

\* C10: book_count never exceeds MAX_BOOKS, from the bootstrap on, and an
\* AddBook that holds the lock with the table at capacity is answered
\* `failure (library full)`, goes straight to the unlock and leaves the Books
\* table alone.
C10_BookCapacity ==
    /\ [](book_count <= MAX_BOOKS)
    /\ [][\A h \in Handlers :
            (Leaves(h, "add_check") /\ book_count >= MAX_BOOKS) =>
               /\ response'[h] = Resp("failure (library full)")
               /\ pc'[h] = "add_unlock"
               /\ books' = books /\ book_count' = book_count]_vars

\* An AddBook refused on a table that AddBook itself filled.
C10_Witness ==
    \E h \in Handlers :
        /\ req[h].command = "AddBook" /\ pc[h] = "send"
        /\ response[h] = Resp("failure (library full)")
        /\ book_count = MAX_BOOKS
        /\ books[MAX_BOOKS - 1].title = "Harry_Potter"

\* ------------------------------------- the whole server: main and threads
\* What only main() writes.
acc_only == <<keep_running, apc, new_socket, server_fd, locks,
              accepted, late, started_late, completed_late>>

\* The thread in slot h exists: created, not returned, process not exited.
Alive(h) == thread[h] = "live" /\ ~ProcessEnded

\* read() returned >= 0: the request is tokenized and dispatched.
ReadOk(h, r) ==
    /\ Alive(h)
    /\ ReadRequest(h, r)
    /\ rd' = [rd EXCEPT ![h] = "ok"]
    /\ UNCHANGED <<acc_only, thread, sock, open_socks, nsent, nwrites, xvars>>

\* read() returned < 0: perror, close(sock), return NULL.
ReadError(h) ==
    /\ Alive(h)
    /\ pc[h] = "idle"
    /\ rd' = [rd EXCEPT ![h] = "error"]
    /\ open_socks' = open_socks \ {sock[h]}
    /\ thread' = [thread EXCEPT ![h] = "none"]
    /\ UNCHANGED <<acc_only, sock, nsent, nwrites>>
    /\ UNCHANGED <<hvars, xvars>>

\* A step of the thread that writes a table.
TableWrite(h) == nwrites' = [nwrites EXCEPT ![h] = @ + 1]

\* Variant: the socket is left open after the response.
SendThenClose_NoClose(h) ==
    /\ Alive(h)
    /\ SendAndClose(h)
    /\ nsent' = [nsent EXCEPT ![h] = @ + 1]
    /\ thread' = [thread EXCEPT ![h] = "none"]
    /\ UNCHANGED <<acc_only, sock, rd, nwrites, open_socks, xvars>>

\* send(sock, response), close(sock), return NULL.
SendThenClose(h) ==
    /\ Alive(h)
    /\ SendAndClose(h)
    /\ nsent' = [nsent EXCEPT ![h] = @ + 1]
    /\ open_socks' = open_socks \ {sock[h]}
    /\ thread' = [thread EXCEPT ![h] = "none"]
    /\ UNCHANGED <<acc_only, sock, rd, nwrites, xvars>>

ServerNext ==
    \/ AcceptorTest /\ UNCHANGED <<hvars, xvars>>
    \/ AcceptStart /\ UNCHANGED <<hvars, xvars>>
    \/ AcceptReturn /\ UNCHANGED <<hvars, xvars>>
    \/ AcceptorCheck /\ UNCHANGED <<hvars, xvars>>
    \/ \E h \in Handlers : CreateHandler(h) /\ UNCHANGED <<hvars, xvars>>
    \/ CreateFails /\ UNCHANGED <<hvars, xvars>>
    \/ AcceptorCloseFd /\ UNCHANGED <<hvars, xvars>>
    \/ AcceptorDestroy /\ UNCHANGED <<hvars, xvars>>
    \/ handle_sigterm /\ UNCHANGED <<hvars, xvars>>
    \/ \E h \in Handlers :
        \/ \E r \in Requests : ReadOk(h, r)
        \/ ReadError(h)
        \/ Alive(h) /\ RegisterLock(h) /\ UNCHANGED <<mvars, xvars>>
        \/ Alive(h) /\ RegisterCheck(h) /\ UNCHANGED <<mvars, xvars>>
        \/ Alive(h) /\ RegisterAppend(h) /\ TableWrite(h)
             /\ UNCHANGED <<acc_only, thread, sock, open_socks, rd, nsent, xvars>>
        \/ Alive(h) /\ RegisterUnlock(h) /\ UNCHANGED <<mvars, xvars>>
        \/ Alive(h) /\ LendUserLock(h) /\ UNCHANGED <<mvars, xvars>>
        \/ Alive(h) /\ LendVerifyUser(h) /\ UNCHANGED <<mvars, xvars>>
        \/ Alive(h) /\ LendUserUnlock(h) /\ UNCHANGED <<mvars, xvars>>
        \/ Alive(h) /\ LendBookLock(h) /\ UNCHANGED <<mvars, xvars>>
        \/ Alive(h) /\ LendCheck(h) /\ UNCHANGED <<mvars, xvars>>
        \/ Alive(h) /\ LendSet(h) /\ TableWrite(h)
             /\ UNCHANGED <<acc_only, thread, sock, open_socks, rd, nsent, xvars>>
        \/ Alive(h) /\ LendBookUnlock(h) /\ UNCHANGED <<mvars, xvars>>
        \/ Alive(h) /\ ReturnLock(h) /\ UNCHANGED <<mvars, xvars>>
        \/ Alive(h) /\ ReturnCheck(h) /\ UNCHANGED <<mvars, xvars>>
        \/ Alive(h) /\ ReturnSet(h) /\ TableWrite(h)
             /\ UNCHANGED <<acc_only, thread, sock, open_socks, rd, nsent, xvars>>
        \/ Alive(h) /\ ReturnUnlock(h) /\ UNCHANGED <<mvars, xvars>>
        \/ Alive(h) /\ AddBookLock(h) /\ UNCHANGED <<mvars, xvars>>
        \/ Alive(h) /\ AddBookCheck(h) /\ UNCHANGED <<mvars, xvars>>
        \/ Alive(h) /\ AddBookAppend(h) /\ TableWrite(h)
             /\ UNCHANGED <<acc_only, thread, sock, open_socks, rd, nsent, xvars>>
        \/ Alive(h) /\ AddBookUnlock(h) /\ UNCHANGED <<mvars, xvars>>
        \/ SendThenClose(h)

ServerSpec == Init /\ [][ServerNext]_vars

\* One handler tokenizing the request it has read.
TokInit == ServerInit /\ TokFilled /\ ClientIdle

TokSpec == TokInit /\ [][Tokenize]_vars

\* --------------------------------------- one handler, any request tokens
\* Tokens of request lines that are not well-formed commands: a known command
\* with arguments missing (zeroed by memset), or another spelling of one.
OddRequests ==
    {Req("Register", "", ""), Req("Lend", "Dune", ""), Req("Return", "", ""),
     Req("register", "alice", ""), Req("LEND", "Dune", "alice")}

\* The handler that serves the requests one after the other.
FirstHandler == 1

ProtoNext ==
    \/ \E r \in Requests \cup OddRequests :
          ReadRequest(FirstHandler, r) /\ UNCHANGED <<mvars, xvars>>
    \/ RegisterLock(FirstHandler) /\ UNCHANGED <<mvars, xvars>>
    \/ RegisterCheck(FirstHandler) /\ UNCHANGED <<mvars, xvars>>
    \/ RegisterAppend(FirstHandler) /\ UNCHANGED <<mvars, xvars>>
    \/ RegisterUnlock(FirstHandler) /\ UNCHANGED <<mvars, xvars>>
    \/ LendUserLock(FirstHandler) /\ UNCHANGED <<mvars, xvars>>
    \/ LendVerifyUser(FirstHandler) /\ UNCHANGED <<mvars, xvars>>
    \/ LendUserUnlock(FirstHandler) /\ UNCHANGED <<mvars, xvars>>
    \/ LendBookLock(FirstHandler) /\ UNCHANGED <<mvars, xvars>>
    \/ LendCheck(FirstHandler) /\ UNCHANGED <<mvars, xvars>>
    \/ LendSet(FirstHandler) /\ UNCHANGED <<mvars, xvars>>
    \/ LendBookUnlock(FirstHandler) /\ UNCHANGED <<mvars, xvars>>
    \/ ReturnLock(FirstHandler) /\ UNCHANGED <<mvars, xvars>>
    \/ ReturnCheck(FirstHandler) /\ UNCHANGED <<mvars, xvars>>
    \/ ReturnSet(FirstHandler) /\ UNCHANGED <<mvars, xvars>>
    \/ ReturnUnlock(FirstHandler) /\ UNCHANGED <<mvars, xvars>>
    \/ AddBookLock(FirstHandler) /\ UNCHANGED <<mvars, xvars>>
    \/ AddBookCheck(FirstHandler) /\ UNCHANGED <<mvars, xvars>>
    \/ AddBookAppend(FirstHandler) /\ UNCHANGED <<mvars, xvars>>
    \/ AddBookUnlock(FirstHandler) /\ UNCHANGED <<mvars, xvars>>
    \/ SendAndClose(FirstHandler) /\ UNCHANGED <<mvars, xvars>>

ProtoSpec == Init /\ [][ProtoNext]_vars

\* ------------------------------------------- a client script and the server
\* Lines of a script file, at most.
MaxScript == 3

Sleep == Req("Sleep", "1", "")
ScriptLines ==
    {Req("Register", "alice", ""), Req("Lend", "Harry_Potter", "alice"),
     Req("Return", "Harry_Potter", ""), Req("AddBook", "Dune", ""), Sleep}
Scripts == SeqsUpTo(ScriptLines, MaxScript)

\* A client thread starts on its script, with either simulate_user.
ClientStart ==
    /\ revision \in {"per_command", "reuse"}
    /\ script \in Scripts
    /\ line = 1
    /\ cpc = "next"
    /\ connected = 0
    /\ chan = NoChan
    /\ received = <<>>

ClientInit == ServerInit /\ TokIdle /\ ClientStart

\* while (fgets(line)): the end of the script, a Sleep line, or a command.
ClientNextLine ==
    /\ cpc = "next"
    /\ IF line > Len(script)
       THEN /\ cpc' = "done"
            /\ chan' = IF connected = 1 THEN NoChan ELSE chan
            /\ UNCHANGED line
       ELSE IF script[line].command = "Sleep"
       THEN /\ line' = line + 1
            /\ UNCHANGED <<cpc, chan>>
       ELSE /\ cpc' = "connect"
            /\ UNCHANGED <<line, chan>>
    /\ UNCHANGED <<revision, script, connected, received>>

\* socket + connect; the reusing client skips it while connected is set.
ClientConnect ==
    /\ cpc = "connect"
    /\ IF revision = "reuse" /\ connected = 1
       THEN UNCHANGED <<chan, connected>>
       ELSE /\ chan' = [NoChan EXCEPT !.state = "pending"]
            /\ connected' = IF revision = "reuse" THEN 1 ELSE 0
    /\ cpc' = "send"
    /\ UNCHANGED <<revision, script, line, received>>

\* send(sock, line): the server reads it only on a connection it has not
\* served yet; a send after the peer's reset raises SIGPIPE.
ClientSend ==
    /\ cpc = "send"
    /\ IF chan.state = "pending"
       THEN /\ chan' = [chan EXCEPT !.inbox = script[line]]
            /\ cpc' = "read"
       ELSE IF chan.reset
       THEN /\ cpc' = "killed"
            /\ UNCHANGED chan
       ELSE /\ chan' = [chan EXCEPT !.stale = TRUE]
            /\ cpc' = "read"
    /\ UNCHANGED <<revision, script, line, connected, received>>

\* read(sock): the response (> 0), end of stream (0) or ECONNRESET (< 0).
ClientRead ==
    /\ cpc = "read"
    /\ \/ /\ chan.outbox # NoResp
          /\ received' = Append(received, chan.outbox)
          /\ chan' = IF revision = "reuse" THEN [chan EXCEPT !.outbox = NoResp] ELSE NoChan
          /\ UNCHANGED connected
       \/ /\ chan.outbox = NoResp /\ chan.state = "closed"
          /\ received' = Append(received, NoResp)
          /\ \/ /\ chan' = NoChan
                /\ connected' = 0
             \/ /\ chan.stale
                /\ chan' = IF revision = "reuse" THEN [chan EXCEPT !.reset = TRUE] ELSE NoChan
                /\ UNCHANGED connected
    /\ line' = line + 1
    /\ cpc' = "next"
    /\ UNCHANGED <<revision, script>>

\* accept, pthread_create and the thread's read, once the request has arrived.
ServeRead(h) ==
    /\ chan.state = "pending"
    /\ chan.inbox # NoReq
    /\ ReadRequest(h, chan.inbox)
    /\ chan' = [chan EXCEPT !.state = "handling", !.inbox = NoReq]
    /\ UNCHANGED <<revision, script, line, cpc, connected, received>>

\* send(sock, response), close(sock): the response reaches the client.
ServeSend(h) ==
    /\ chan.state = "handling"
    /\ chan' = [chan EXCEPT !.state = "closed", !.outbox = response[h]]
    /\ SendAndClose(h)
    /\ UNCHANGED <<revision, script, line, cpc, connected, received>>

ClientNext ==
    \/ ClientNextLine /\ UNCHANGED <<hvars, mvars, tvars>>
    \/ ClientConnect /\ UNCHANGED <<hvars, mvars, tvars>>
    \/ ClientSend /\ UNCHANGED <<hvars, mvars, tvars>>
    \/ ClientRead /\ UNCHANGED <<hvars, mvars, tvars>>
    \/ \E h \in Handlers :
        \/ ServeRead(h) /\ UNCHANGED <<mvars, tvars>>
        \/ RegisterLock(h) /\ UNCHANGED <<mvars, xvars>>
        \/ RegisterCheck(h) /\ UNCHANGED <<mvars, xvars>>
        \/ RegisterAppend(h) /\ UNCHANGED <<mvars, xvars>>
        \/ RegisterUnlock(h) /\ UNCHANGED <<mvars, xvars>>
        \/ LendUserLock(h) /\ UNCHANGED <<mvars, xvars>>
        \/ LendVerifyUser(h) /\ UNCHANGED <<mvars, xvars>>
        \/ LendUserUnlock(h) /\ UNCHANGED <<mvars, xvars>>
        \/ LendBookLock(h) /\ UNCHANGED <<mvars, xvars>>
        \/ LendCheck(h) /\ UNCHANGED <<mvars, xvars>>
        \/ LendSet(h) /\ UNCHANGED <<mvars, xvars>>
        \/ LendBookUnlock(h) /\ UNCHANGED <<mvars, xvars>>
        \/ ReturnLock(h) /\ UNCHANGED <<mvars, xvars>>
        \/ ReturnCheck(h) /\ UNCHANGED <<mvars, xvars>>
        \/ ReturnSet(h) /\ UNCHANGED <<mvars, xvars>>
        \/ ReturnUnlock(h) /\ UNCHANGED <<mvars, xvars>>
        \/ AddBookLock(h) /\ UNCHANGED <<mvars, xvars>>
        \/ AddBookCheck(h) /\ UNCHANGED <<mvars, xvars>>
        \/ AddBookAppend(h) /\ UNCHANGED <<mvars, xvars>>
        \/ AddBookUnlock(h) /\ UNCHANGED <<mvars, xvars>>
        \/ ServeSend(h) /\ UNCHANGED <<mvars, tvars>>

ClientSpec == ClientInit /\ [][ClientNext]_vars

\* ============================================================ C11 .. C20
\* C11: a connection returned by an accept call that completes while the
\* termination flag is already set is never handed to a handler thread, and
\* once main() has left the loop it neither calls accept nor spawns again.
C11_NoHandlerAfterFlag ==
    [][/\ (\E h \in Handlers : thread[h] = "none" /\ thread'[h] = "live") => ~late
       /\ apc \in Exiting =>
             /\ apc' \in Exiting
             /\ \A h \in Handlers : thread'[h] = "live" => thread[h] = "live"]_vars

\* A connection was accepted with the flag set and main() has left the loop.
C11_Witness == late /\ new_socket > 0 /\ apc = "close_fd"

\* C12, "starts no further one": after the flag is set no accept call is
\* started.
C12_NoAcceptStartedAfterFlag == started_late = 0

\* C12, allowing the one accept call that the loop test let through: the flag
\* once set stays set; after it is set at most one accept call is entered and
\* at most one returns; a loop test or a post-accept check that sees the flag
\* leaves the loop; main() then reaches STOPPED with the listening socket
\* closed and both locks destroyed, and never goes back.
C12_StopsWithinOnePoll ==
    /\ [](started_late <= 1 /\ completed_late <= 1)
    /\ [](apc = "stopped" => server_fd = "closed" /\ locks = "destroyed")
    /\ [][/\ keep_running = 0 => keep_running' = 0
          /\ keep_running = 0 /\ apc \in {"test", "check"} /\ apc' # apc
                => apc' = "close_fd"
          /\ apc \in Exiting => apc' \in Exiting
          /\ apc = "stopped" => apc' = "stopped"]_vars
    /\ (keep_running = 0 ~> apc = "stopped")

\* STOPPED after an accept call that was entered, and returned, with the flag set.
C12_Witness == apc = "stopped" /\ started_late = 1 /\ completed_late = 1

\* The literal response strings of client_handler.
Vocabulary ==
    {Resp(m) : m \in {"success", "failure (max users reached)",
                      "failure (user already exists)", "failure (user not found)",
                      "failure (book not available)", "failure (book not found)",
                      "failure (library full)", "failure (unknown command)"}}
      \cup {SuccessId(k) : k \in 1 .. MAX_USERS}

\* The thread of slot h has returned.
Returned(h) == thread[h] = "none" /\ sock[h] # 0

\* C13: a handler thread whose read succeeded writes the tables at most once,
\* sends exactly one response, one of the literal strings, and closes its
\* socket as it sends; it reads no second request; a thread whose read failed
\* sends nothing and closes its socket too.
C13_OneResponseThenClose ==
    \A h \in Handlers :
        /\ nwrites[h] <= 1
        /\ nsent[h] <= 1
        /\ thread[h] = "live" => /\ nsent[h] = 0
                                 /\ sock[h] \in open_socks
                                 /\ (pc[h] = "idle") = (rd[h] = "none")
        /\ pc[h] = "send" => response[h] \in Vocabulary
        /\ Returned(h) => /\ sock[h] \notin open_socks
                          /\ rd[h] \in {"ok", "error"}
                          /\ nsent[h] = (IF rd[h] = "ok" THEN 1 ELSE 0)
                          /\ rd[h] = "error" => nwrites[h] = 0

\* One thread returned after a table write and its response, another after a
\* failed read.
C13_Witness ==
    \E h, g \in Handlers :
        /\ Returned(h) /\ rd[h] = "ok" /\ nwrites[h] = 1 /\ nsent[h] = 1
        /\ Returned(g) /\ rd[g] = "error"

\* C17: main() leaves the loop, closes the listening socket and destroys the
\* locks whatever the handler threads are doing: each of these steps can be
\* taken in every state main() is at it, and none of them touches a thread.
C17_ShutdownNeverWaits ==
    /\ [](/\ apc = "close_fd" => ENABLED (AcceptorCloseFd /\ UNCHANGED <<hvars, xvars>>)
          /\ apc = "destroy" => ENABLED (AcceptorDestroy /\ UNCHANGED <<hvars, xvars>>))
    /\ [][(apc \in Exiting /\ apc' # apc) => (thread' = thread /\ pc' = pc)]_vars

\* STOPPED, locks destroyed, while a thread spawned before is inside a
\* critical section holding a lock, and another has not read its request yet.
C17_Witness ==
    /\ apc = "stopped" /\ locks = "destroyed"
    /\ \E h, g \in Handlers :
          /\ thread[h] = "live" /\ pc[h] = "reg_append" /\ user_lock.writer = h
          /\ thread[g] = "live" /\ pc[g] = "idle"

\* The whitespace-separated words of a line, in order.
RECURSIVE WordsFrom(_, _)
WordsFrom(buf, i) ==
    LET from == SkipSpace(buf, i)
        to == ScanWord_DropRest(buf, from, 0)
    IN  IF from > Len(buf) THEN <<>>
        ELSE <<SubSeq(buf, from, to - 1)>> \o WordsFrom(buf, to)

Truncated(w) == IF Len(w) > TOKEN_WIDTH THEN SubSeq(w, 1, TOKEN_WIDTH) ELSE w
WordAt(ws, k) == IF k <= Len(ws) THEN Truncated(ws[k]) ELSE <<>>

\* C18 as stated: command, arg1, arg2 are the first three words of the line,
\* each cut to its first 49 characters, the rest of an over-long word dropped.
C18_TruncatedInPlace ==
    (tpc = "scanned" /\ WordsFrom(buffer, 1) # <<>>) =>
        LET ws == WordsFrom(buffer, 1)
        IN  /\ tokens.command = WordAt(ws, 1)
            /\ tokens.arg1 = WordAt(ws, 2)
            /\ tokens.arg2 = WordAt(ws, 3)

Commands == {"Register", "Lend", "Return", "AddBook"}
\* A known command with a required argument missing.
Malformed(r) ==
    \/ r.command \in Commands /\ r.arg1 = ""
    \/ r.command = "Lend" /\ r.arg2 = ""
ProtocolError(r) == r.command \notin Commands \/ Malformed(r)

\* C14 as stated: a request that is a ProtocolError goes from the tokenizer
\* straight to the response `failure (unknown command)`, with no table touched.
C14_ProtocolErrorIsUnknownCommand ==
    \A h \in Handlers :
        (pc[h] # "idle" /\ ProtocolError(req[h])) =>
            /\ pc[h] = "send"
            /\ response[h] = Resp("failure (unknown command)")

\* The three default books are in the table (titles are never rewritten).
DefaultsLoaded ==
    /\ book_count = 3
    /\ \A i \in 0 .. 2 : books[i].title = DefaultTitles[i + 1]
EndToEndScript ==
    <<Req("Register", "alice", ""), Req("Lend", "Harry_Potter", "alice"),
      Req("Lend", "Harry_Potter", "alice")>>
EndToEndResponses ==
    <<SuccessId(1), Resp("success"), Resp("failure (book not available)")>>
IsPrefix(a, b) == Len(a) <= Len(b) /\ a = SubSeq(b, 1, Len(a))

\* C15: with the three default books, the one-connection-per-command client
\* running Register alice, Lend Harry_Potter alice, Lend Harry_Potter alice
\* reads `success 1`, `success`, `failure (book not available)`, in this order.
C15_EndToEnd ==
    (revision = "per_command" /\ script = EndToEndScript /\ DefaultsLoaded) =>
        /\ IsPrefix(received, EndToEndResponses)
        /\ Len(received) = line - 1
        /\ cpc = "done" => received = EndToEndResponses

\* The script has run to its end on the default books.
C15_Witness ==
    /\ revision = "per_command" /\ script = EndToEndScript /\ DefaultsLoaded
    /\ cpc = "done" /\ received = EndToEndResponses

\* C20 as stated: with the connection-reusing client every command line of
\* the script is answered: each read gives a response, and the thread is not
\* ended before the script is.
C20_EveryCommandAnswered ==
    revision = "reuse" =>
        /\ \A i \in 1 .. Len(received) : received[i] # NoResp
        /\ cpc # "killed"

\* The lock handler h is about to ask for, and whether it has to wait.
AtUserLock(h) == pc[h] \in {"reg_wrlock", "lend_rdlock"}
AtBookLock(h) == pc[h] \in {"lend_wrlock", "ret_wrlock", "add_wrlock"}
Blocked(h) ==
    \/ pc[h] = "reg_wrlock" /\ ~CanWrLock(user_lock)
    \/ pc[h] = "lend_rdlock" /\ ~CanRdLock(user_lock)
    \/ AtBookLock(h) /\ ~CanWrLock(book_lock)
HeldBy(l) == (IF l.writer = NoHandler THEN {} ELSE {l.writer}) \cup l.readers
WaitsFor(h) ==
    IF ~Blocked(h) THEN {}
    ELSE IF AtUserLock(h) THEN HeldBy(user_lock)
    ELSE HeldBy(book_lock)

C19_LenderStillRegistered ==
    /\ [](\A h \in Handlers :
             (IsLend(h) /\ pc[h] \in BooksPart) => Registered(req[h].arg2))
    /\ [][/\ user_count' >= user_count
          /\ \A i \in 0 .. user_count - 1 : users'[i] = users[i]]_vars

\* A Lend marks its book while a user registered after its check is in the table too.
C19_Witness ==
    \E h \in Handlers :
        /\ IsLend(h) /\ pc[h] = "lend_unlock" /\ response[h] = Resp("success")
        /\ Registered(req[h].arg2) /\ user_count = 2

\* The connection c has an owner: a live handler thread, or main() between
\* accept and pthread_create.
Owned(c) ==
    \/ \E h \in Handlers : thread[h] = "live" /\ sock[h] = c
    \/ new_socket = c /\ apc \in {"check", "create"}

\* C21 as stated: while main() is in its accept loop, every accepted socket
\* that is still open belongs to a handler thread or to main() about to hand
\* it over; after a failed pthread_create the socket is closed.
C21_NoOrphanSocket ==
    apc \in {"test", "call", "accept", "check", "create"} =>
        \A c \in open_socks : Owned(c)

====
